---------------------------- MODULE Spec2Model ----------------------------
(***************************************************************************)
(* Model of static/js/ratecards.js: the four rate-card header renderers    *)
(* (renderProjectsRateCard, renderDispatchRateCard,                        *)
(* renderScheduledRateCard, renderDedicatedRateCard), the DOM container    *)
(* they write, and the promise chain                                       *)
(*   fetch(url).then(val => val.json()).then(console.log).catch(console.log)*)
(* that renderDedicatedRateCard starts.                                    *)
(*                                                                         *)
(* Markup is a sequence of lexemes (tags, words, runs of white space)      *)
(* whose concatenation is the source's template literal, character for     *)
(* character.  A renderer call is one step: JavaScript runs a function to  *)
(* completion before the event loop delivers any promise reaction, so the  *)
(* reactions of the chain are separate steps that interleave between       *)
(* calls.                                                                  *)
(***************************************************************************)
EXTENDS Naturals, Sequences, FiniteSets

VARIABLES
    innerHTML,   \* container.innerHTML of the one DOM element the callers pass
    console,     \* the lines console.log has written, oldest first
    requests,    \* the HTTP requests fetch() has issued, oldest first
    chain,       \* chain[k]: the promise chain started by requests[k]
    lastCall,    \* the most recent renderer call: function, arguments, outcome
    lastRendered,\* the renderer most recently called on the element, or "none"
    callCount    \* callCount[f]: how many times renderer f has been called

vars == <<innerHTML, console, requests, chain, lastCall, lastRendered, callCount>>

---------------------------------------------------------------------------
(* Bounds of the model. *)

\* Renderer calls made in one behaviour.
MaxCalls == 2

---------------------------------------------------------------------------
(* The header literals, ratecards.js lines 3, 11, 19 and 28. *)

ProjectsHeader ==
    <<
    "<thead>", "<tr>", "<th rowspan=\"2\">", "#", "</th>", "<th rowspan=\"2\">", "Customer",
    "</th>", "<th rowspan=\"2\">", "Region", "</th>", "<th rowspan=\"2\">", "Country", "</th>",
    "<th rowspan=\"2\">", "Supplier", "</th>", "<th rowspan=\"2\">", "Currency", "</th>",
    "<th rowspan=\"2\">", "Entity", "</th>", "<th rowspan=\"2\">", "Payment", "</th>",
    "<th colspan=\"5\">", "Short", " ", "Term", " ", "(Up", " ", "to", " ", "3", " ", "Months)",
    "</th>", "<th colspan=\"5\">", "Long", " ", "Term", " ", "(more", " ", "than", " ", "3",
    " ", "Months)", " ", "</th>", "<th rowspan=\"2\">", "Status", "</th>", "<th rowspan=\"2\">",
    "Action", "</th>", "</tr>", "<tr>", "<th>", "Band", " ", "0", "</th>", "<th>", "Band", " ",
    "1", "</th>", "<th>", "Band", " ", "2", "</th>", "<th>", "Band", " ", "3", "</th>", "<th>",
    "Band", " ", "4", "</th>", "<th>", "Band", " ", "0", "</th>", "<th>", "Band", " ", "1",
    "</th>", "<th>", "Band", " ", "2", "</th>", "<th>", "Band", " ", "3", "</th>", "<th>",
    "Band", " ", "4", "</th>", "</tr>", "</thead>"
    >>

DispatchHeader ==
    <<
    "<thead>", "<tr>", "<th rowspan=\"2\">", "#", "</th>", "<th rowspan=\"2\">", "Customer",
    "</th>", "<th rowspan=\"2\">", "Region", "</th>", "<th rowspan=\"2\">", "Country", "</th>",
    "<th rowspan=\"2\">", "Supplier", "</th>", "<th rowspan=\"2\">", "Currency", "</th>",
    "<th rowspan=\"2\">", "Entity", "</th>", "<th rowspan=\"2\">", "Payment", "</th>",
    "<th colspan=\"6\">", "Dispatch", " ", "Tickets", " ", "(incident)", " ", "</th>",
    "<th colspan=\"3\">", "Dispatch", " ", "Ticket", " ", "(IMAC)", " ", "</th>",
    "<th rowspan=\"2\">", "Status", "</th>", "<th rowspan=\"2\">", "Action", "</th>", "</tr>",
    "<tr>", "<th>", "4", " ", "Hours", "</th>", "<th>", "SBD", "</th>", "<th>", "NBD", "</th>",
    "<th>", "2", " ", "BD", "</th>", "<th>", "3", " ", "BD", "</th>", "<th>", "Additional", " ",
    "Hour", "</th>", "<th>", "2BD", "</th>", "<th>", "3", " ", "BD", "</th>", "<th>", "4", " ",
    "BD", "</th>", "</tr>", "</thead>"
    >>

ScheduledHeader ==
    <<
    "<thead>", "<tr>", "<th rowspan=\"2\">", "#", "</th>", "<th rowspan=\"2\">", "Customer",
    "</th>", "<th rowspan=\"2\">", "Region", "</th>", "<th rowspan=\"2\">", "Country", "</th>",
    "<th rowspan=\"2\">", "Supplier", "</th>", "<th rowspan=\"2\">", "Currency", "</th>",
    "<th rowspan=\"2\">", "Entity", "</th>", "<th rowspan=\"2\">", "Payment", "</th>",
    "<th colspan=\"3\">", "Full", " ", "Day", " ", "Visit", " ", "(8hrs)", "</th>",
    "<th colspan=\"3\">", "1/2", " ", "Day", " ", "Visit", " ", "(4hrs)", " ", "</th>",
    "<th rowspan=\"2\">", "Status", "</th>", "<th rowspan=\"2\">", "Action", "</th>", "</tr>",
    "<tr>", "<th>", "Band", " ", "0", "</th>", "<th>", "Band", " ", "1", "</th>", "<th>",
    "Band", " ", "2", "</th>", "<th>", "Band", " ", "0", "</th>", "<th>", "Band", " ", "1",
    "</th>", "<th>", "Band", " ", "2", "</th>", "</tr>", "</thead>"
    >>

\* DedicatedHeader with the last "Without" cell of row 2 left out, as a slip
\* in editing the literal would.
DedicatedHeader_Drift ==
    <<
     "<thead>", "<tr>", "<th rowspan=\"2\">", "#", "</th>", "<th rowspan=\"2\">", "Customer",
     "</th>", "<th rowspan=\"2\">", "Region", "</th>", "<th rowspan=\"2\">", "Country",
     "</th>", "<th rowspan=\"2\">", "Supplier", "</th>", "<th rowspan=\"2\">", "Currency",
     "</th>", "<th rowspan=\"2\">", "Entity", "</th>", "<th rowspan=\"2\">", "Payment",
     "</th>", "<th colspan=\"2\">", "Band", " ", "0", "</th>", "<th colspan=\"2\">", "Band",
     " ", "1", "</th>", "<th colspan=\"2\">", "Band", " ", "2", "</th>",
     "<th colspan=\"2\">", "Band", " ", "3", "</th>", "<th colspan=\"2\">", "Band", " ", "4",
     "</th>", "<th rowspan=\"2\">", "Status", "</th>", "<th rowspan=\"2\">", "Action",
     "</th>", "</tr>", "<tr>", "<th>", "With", "</th>", "<th>", "Without", "</th>", "<th>",
     "With", "</th>", "<th>", "Without", "</th>", "<th>", "With", "</th>", "<th>", "Without",
     "</th>", "<th>", "With", "</th>", "<th>", "Without", "</th>", "<th>", "With", "</th>",
     "</tr>", "</thead>"
    >>

DedicatedHeader ==
    <<
    "<thead>", "<tr>", "<th rowspan=\"2\">", "#", "</th>", "<th rowspan=\"2\">", "Customer",
    "</th>", "<th rowspan=\"2\">", "Region", "</th>", "<th rowspan=\"2\">", "Country", "</th>",
    "<th rowspan=\"2\">", "Supplier", "</th>", "<th rowspan=\"2\">", "Currency", "</th>",
    "<th rowspan=\"2\">", "Entity", "</th>", "<th rowspan=\"2\">", "Payment", "</th>",
    "<th colspan=\"2\">", "Band", " ", "0", "</th>", "<th colspan=\"2\">", "Band", " ", "1",
    "</th>", "<th colspan=\"2\">", "Band", " ", "2", "</th>", "<th colspan=\"2\">", "Band", " ",
    "3", "</th>", "<th colspan=\"2\">", "Band", " ", "4", "</th>", "<th rowspan=\"2\">",
    "Status", "</th>", "<th rowspan=\"2\">", "Action", "</th>", "</tr>", "<tr>", "<th>", "With",
    "</th>", "<th>", "Without", "</th>", "<th>", "With", "</th>", "<th>", "Without", "</th>",
    "<th>", "With", "</th>", "<th>", "Without", "</th>", "<th>", "With", "</th>", "<th>",
    "Without", "</th>", "<th>", "With", "</th>", "<th>", "Without", "</th>", "</tr>", "</thead>"
    >>

---------------------------------------------------------------------------
(* Inputs. *)

\* The names of the four functions.
Renderers ==
    {"renderProjectsRateCard", "renderDispatchRateCard",
     "renderScheduledRateCard", "renderDedicatedRateCard"}

\* The `url` argument: only renderDedicatedRateCard reads it.
Urls == {"/rate_cards/dedicated/all/", "/rate_cards/missing/"}

\* The `container` argument: the DOM element, or null (no such element).
Containers == {"element", "null"}

\* What the element may hold before the first call.
PriorContents ==
    { <<>>,
      <<"<p>", "Loading", "</p>">>,
      <<"<table>", "<tbody>", "<tr>", "<td>", "old", " ", "row", "</td>", "</tr>",
        "</tbody>", "</table>">> }

\* What the server may answer: fetch() fulfils on any HTTP status.
Responses ==
    { [status |-> 200, body |-> "[1,2]"],
      [status |-> 200, body |-> "<!doctype html>"],
      [status |-> 404, body |-> "[]"],
      [status |-> 500, body |-> ""] }

NoResponse == [status |-> 0, body |-> ""]

---------------------------------------------------------------------------
(* Pure helpers. *)

\* The template without its <tbody></tbody>.
TableTemplate_NoBody == <<"<table>", "${header}", "</table>">>

\* The template literal `<table>${header}<tbody></tbody></table>`.
TableTemplate == <<"<table>", "${header}", "<tbody>", "</tbody>", "</table>">>

\* Evaluation of a template literal: the placeholder is replaced by the
\* value of `header`, everything else is kept as written.
RECURSIVE Interpolate(_, _)
Interpolate(template, header) ==
    IF template = <<>> THEN <<>>
    ELSE (IF Head(template) = "${header}" THEN header ELSE <<Head(template)>>)
         \o Interpolate(Tail(template), header)

\* Response.json(): the bodies that are JSON texts, and what they decode to.
JsonValid(body) == body \in {"[]", "[1,2]"}

JsonParse(body) ==
    CASE body = "[]" -> <<>>
      [] body = "[1,2]" -> <<1, 2>>

\* fetch(url): one GET request to `url`, and a pending promise chain.
Fetch(url) ==
    /\ requests' = Append(requests, [method |-> "GET", url |-> url])
    /\ chain' = Append(chain, [pc |-> "pending", response |-> NoResponse,
                               value |-> <<>>, reason |-> ""])

\* container.innerHTML += markup: the markup is added after what is there.
SetInnerHTML_Append(container, markup) ==
    IF container = "null" THEN innerHTML' = innerHTML
    ELSE innerHTML' = innerHTML \o markup

\* container.innerHTML = markup: replaces the element's content; on null it
\* throws a TypeError and nothing is written.
SetInnerHTML(container, markup) ==
    IF container = "null" THEN innerHTML' = innerHTML ELSE innerHTML' = markup

\* How a call that reached its last statement ends.
Completion(container) == IF container = "null" THEN "threw" ELSE "returned"

\* Bookkeeping of a call of renderer f.
Called(f, url, container) ==
    /\ lastCall' = [fn |-> f, url |-> url, container |-> container,
                    result |-> Completion(container)]
    /\ lastRendered' = IF container = "element" THEN f ELSE lastRendered
    /\ callCount' = [callCount EXCEPT ![f] = @ + 1]

TotalCalls ==
    callCount["renderProjectsRateCard"] + callCount["renderDispatchRateCard"]
    + callCount["renderScheduledRateCard"] + callCount["renderDedicatedRateCard"]

---------------------------------------------------------------------------
(* The state after the script has loaded: nothing called yet. *)

Init ==
    /\ innerHTML \in PriorContents
    /\ console = <<>>
    /\ requests = <<>>
    /\ chain = <<>>
    /\ lastCall = [fn |-> "none", url |-> "", container |-> "null", result |-> "none"]
    /\ lastRendered = "none"
    /\ callCount = [f \in Renderers |-> 0]

---------------------------------------------------------------------------
(* The four renderers. *)

\* renderProjectsRateCard with its commented-out fetch() made live.
renderProjectsRateCard_Fetches(url, container) ==
    /\ TotalCalls < MaxCalls
    /\ Fetch(url)
    /\ SetInnerHTML(container, Interpolate(TableTemplate, ProjectsHeader))
    /\ Called("renderProjectsRateCard", url, container)
    /\ UNCHANGED console

renderProjectsRateCard(url, container) ==
    /\ TotalCalls < MaxCalls
    /\ SetInnerHTML(container, Interpolate(TableTemplate, ProjectsHeader))
    /\ Called("renderProjectsRateCard", url, container)
    /\ UNCHANGED <<console, requests, chain>>

renderDispatchRateCard(url, container) ==
    /\ TotalCalls < MaxCalls
    /\ SetInnerHTML(container, Interpolate(TableTemplate, DispatchHeader))
    /\ Called("renderDispatchRateCard", url, container)
    /\ UNCHANGED <<console, requests, chain>>

\* renderScheduledRateCard left with the header of the function it was copied
\* from.
renderScheduledRateCard_CopyPaste(url, container) ==
    /\ TotalCalls < MaxCalls
    /\ SetInnerHTML(container, Interpolate(TableTemplate, DispatchHeader))
    /\ Called("renderScheduledRateCard", url, container)
    /\ UNCHANGED <<console, requests, chain>>

renderScheduledRateCard(url, container) ==
    /\ TotalCalls < MaxCalls
    /\ SetInnerHTML(container, Interpolate(TableTemplate, ScheduledHeader))
    /\ Called("renderScheduledRateCard", url, container)
    /\ UNCHANGED <<console, requests, chain>>

\* renderDedicatedRateCard with a blocking request: the response is decoded
\* and logged before the header is written.
renderDedicatedRateCard_Blocking(url, container) ==
    /\ TotalCalls < MaxCalls
    /\ requests' = Append(requests, [method |-> "GET", url |-> url])
    /\ \E r \in {x \in Responses : JsonValid(x.body)} :
          /\ chain' = Append(chain, [pc |-> "settled", response |-> r,
                                     value |-> JsonParse(r.body), reason |-> ""])
          /\ console' = Append(console, [fetch |-> Len(requests) + 1, kind |-> "value",
                                         value |-> JsonParse(r.body), reason |-> ""])
    /\ SetInnerHTML(container, Interpolate(TableTemplate, DedicatedHeader))
    /\ Called("renderDedicatedRateCard", url, container)

\* renderDedicatedRateCard with lines 30 and 31 exchanged: the write comes
\* first, and on a null container its TypeError ends the call before fetch().
renderDedicatedRateCard_WriteFirst(url, container) ==
    /\ TotalCalls < MaxCalls
    /\ SetInnerHTML(container, Interpolate(TableTemplate, DedicatedHeader))
    /\ IF container = "null" THEN UNCHANGED <<requests, chain>> ELSE Fetch(url)
    /\ Called("renderDedicatedRateCard", url, container)
    /\ UNCHANGED console

\* Line 30 runs before line 31: the request is issued, then the write is
\* attempted.
renderDedicatedRateCard(url, container) ==
    /\ TotalCalls < MaxCalls
    /\ Fetch(url)
    /\ SetInnerHTML(container, Interpolate(TableTemplate, DedicatedHeader))
    /\ Called("renderDedicatedRateCard", url, container)
    /\ UNCHANGED console

---------------------------------------------------------------------------
(* The promise chain of line 30, one reaction per step. *)

\* The network answers: the promise of fetch(url) fulfils with a Response.
FetchFulfil(k, r) ==
    /\ chain[k].pc = "pending"
    /\ chain' = [chain EXCEPT ![k].pc = "fulfilled", ![k].response = r]
    /\ UNCHANGED <<innerHTML, console, requests, lastCall, lastRendered, callCount>>

\* The network fails: the promise of fetch(url) rejects with a TypeError.
FetchReject(k) ==
    /\ chain[k].pc = "pending"
    /\ chain' = [chain EXCEPT ![k].pc = "rejected", ![k].reason = "TypeError"]
    /\ UNCHANGED <<innerHTML, console, requests, lastCall, lastRendered, callCount>>

\* .then(val => val.json()): decodes the body, or rejects with a SyntaxError.
ThenJson(k) ==
    /\ chain[k].pc = "fulfilled"
    /\ chain' = IF JsonValid(chain[k].response.body)
                THEN [chain EXCEPT ![k].pc = "decoded",
                                   ![k].value = JsonParse(chain[k].response.body)]
                ELSE [chain EXCEPT ![k].pc = "rejected", ![k].reason = "SyntaxError"]
    /\ UNCHANGED <<innerHTML, console, requests, lastCall, lastRendered, callCount>>

\* .then(val => ...) filling the table body with a row per decoded item.
ThenLog_PopulateRows(k) ==
    /\ chain[k].pc = "decoded"
    /\ console' = Append(console, [fetch |-> k, kind |-> "value",
                                   value |-> chain[k].value, reason |-> ""])
    /\ innerHTML' = innerHTML \o <<"<tr>", "<td>", "row", "</td>", "</tr>">>
    /\ chain' = [chain EXCEPT ![k].pc = "settled"]
    /\ UNCHANGED <<requests, lastCall, lastRendered, callCount>>

\* .then(val => console.log(val)): skipped by a rejection.
ThenLog(k) ==
    /\ chain[k].pc = "decoded"
    /\ console' = Append(console, [fetch |-> k, kind |-> "value",
                                   value |-> chain[k].value, reason |-> ""])
    /\ chain' = [chain EXCEPT ![k].pc = "settled"]
    /\ UNCHANGED <<innerHTML, requests, lastCall, lastRendered, callCount>>

\* The chain without its .catch(): a rejection is reported by nobody.
CatchLog_Unhandled(k) ==
    /\ chain[k].pc = "rejected"
    /\ chain' = [chain EXCEPT ![k].pc = "settled"]
    /\ UNCHANGED <<innerHTML, console, requests, lastCall, lastRendered, callCount>>

\* .catch(e => ...) showing the error in the element as well as logging it.
CatchLog_ShowError(k) ==
    /\ chain[k].pc = "rejected"
    /\ console' = Append(console, [fetch |-> k, kind |-> "error",
                                   value |-> <<>>, reason |-> chain[k].reason])
    /\ innerHTML' = <<"<p>", chain[k].reason, "</p>">>
    /\ chain' = [chain EXCEPT ![k].pc = "settled"]
    /\ UNCHANGED <<requests, lastCall, lastRendered, callCount>>

\* .catch(e => console.log(e)): runs on a rejection from any earlier link.
CatchLog(k) ==
    /\ chain[k].pc = "rejected"
    /\ console' = Append(console, [fetch |-> k, kind |-> "error",
                                   value |-> <<>>, reason |-> chain[k].reason])
    /\ chain' = [chain EXCEPT ![k].pc = "settled"]
    /\ UNCHANGED <<innerHTML, requests, lastCall, lastRendered, callCount>>

---------------------------------------------------------------------------

Next ==
    \/ \E url \in Urls, container \in Containers :
          renderProjectsRateCard(url, container)
    \/ \E url \in Urls, container \in Containers :
          renderDispatchRateCard(url, container)
    \/ \E url \in Urls, container \in Containers :
          renderScheduledRateCard(url, container)
    \/ \E url \in Urls, container \in Containers :
          renderDedicatedRateCard(url, container)
    \/ \E k \in 1..Len(chain), r \in Responses : FetchFulfil(k, r)
    \/ \E k \in 1..Len(chain) : FetchReject(k)
    \/ \E k \in 1..Len(chain) : ThenJson(k)
    \/ \E k \in 1..Len(chain) : ThenLog(k)
    \/ \E k \in 1..Len(chain) : CatchLog(k)

Spec == Init /\ [][Next]_vars

---------------------------------------------------------------------------
(* Reading markup back: rows, cells and spans of a lexeme sequence. *)

\* The opening tags of a header cell that the literals use.
ThOpen ==
    {"<th>", "<th rowspan=\"2\">", "<th colspan=\"2\">", "<th colspan=\"3\">",
     "<th colspan=\"5\">", "<th colspan=\"6\">"}

\* The colspan attribute of an opening tag; 1 when it has none.
ColSpan(tag) ==
    CASE tag = "<th colspan=\"2\">" -> 2
      [] tag = "<th colspan=\"3\">" -> 3
      [] tag = "<th colspan=\"5\">" -> 5
      [] tag = "<th colspan=\"6\">" -> 6
      [] OTHER -> 1

\* The rowspan attribute of an opening tag; 1 when it has none.
RowSpan(tag) == IF tag = "<th rowspan=\"2\">" THEN 2 ELSE 1

\* The elements of a set of positions, ascending.
RECURSIVE Ascending(_)
Ascending(S) ==
    IF S = {} THEN <<>>
    ELSE LET lo == CHOOSE i \in S : \A j \in S : i <= j
         IN  <<lo>> \o Ascending(S \ {lo})

\* The first position after i that holds `close`, or one past the end.
CloseAfter(m, i, close) ==
    LET later == {j \in DOMAIN m : j > i /\ m[j] = close}
    IN  IF later = {} THEN Len(m) + 1
        ELSE CHOOSE j \in later : \A l \in later : j <= l

\* What lies between the first `open` and the `close` that follows it.
Inside(m, open, close) ==
    LET starts == {i \in DOMAIN m : m[i] = open}
    IN  IF starts = {} THEN <<>>
        ELSE LET i == CHOOSE a \in starts : \A b \in starts : a <= b
             IN  SubSeq(m, i + 1, CloseAfter(m, i, close) - 1)

\* Whether m has an element open ... close at all.
Has(m, open) == \E i \in DOMAIN m : m[i] = open

\* The rows of m, in order: each the lexemes between <tr> and </tr>.
Rows(m) ==
    LET starts == Ascending({i \in DOMAIN m : m[i] = "<tr>"})
    IN  [n \in DOMAIN starts |->
            SubSeq(m, starts[n] + 1, CloseAfter(m, starts[n], "</tr>") - 1)]

\* The cells of a row, in order: the opening tag and the label's lexemes.
Cells(row) ==
    LET starts == Ascending({i \in DOMAIN row : row[i] \in ThOpen})
    IN  [n \in DOMAIN starts |->
            [tag |-> row[starts[n]],
             label |-> SubSeq(row, starts[n] + 1,
                              CloseAfter(row, starts[n], "</th>") - 1)]]

\* The header rows and the body of the table in m.
HeaderRows(m) == Rows(Inside(m, "<thead>", "</thead>"))
Body(m) == Inside(m, "<tbody>", "</tbody>")

\* The sum of the column spans of a sequence of cells.
RECURSIVE SpanSum(_)
SpanSum(cells) ==
    IF cells = <<>> THEN 0 ELSE ColSpan(Head(cells).tag) + SpanSum(Tail(cells))

\* The cells of a sequence that span both header rows, and those that do not.
RECURSIVE TwoRowCells(_)
TwoRowCells(cells) ==
    IF cells = <<>> THEN <<>>
    ELSE (IF RowSpan(Head(cells).tag) = 2 THEN <<Head(cells)>> ELSE <<>>)
         \o TwoRowCells(Tail(cells))

RECURSIVE OneRowCells(_)
OneRowCells(cells) ==
    IF cells = <<>> THEN <<>>
    ELSE (IF RowSpan(Head(cells).tag) = 1 THEN <<Head(cells)>> ELSE <<>>)
         \o OneRowCells(Tail(cells))

\* The labels of a sequence of cells.
Labels(cells) == [n \in DOMAIN cells |-> cells[n].label]

\* Whether a label begins with the given lexemes.
StartsWith(label, lexemes) ==
    /\ Len(label) >= Len(lexemes)
    /\ SubSeq(label, 1, Len(lexemes)) = lexemes

\* The header literal of each renderer.
HeaderOf(f) ==
    CASE f = "renderProjectsRateCard" -> ProjectsHeader
      [] f = "renderDispatchRateCard" -> DispatchHeader
      [] f = "renderScheduledRateCard" -> ScheduledHeader
      [] f = "renderDedicatedRateCard" -> DedicatedHeader

\* The table of renderer f: its header, then an empty body.
TableOf(f) == <<"<table>">> \o HeaderOf(f) \o <<"<tbody>", "</tbody>", "</table>">>

\* A step that is a renderer call.
IsCall == callCount' # callCount

\* The console lines written for fetch k.
LinesOf(lines, k) == {i \in DOMAIN lines : lines[i].fetch = k}

---------------------------------------------------------------------------
(* C1 *)

\* C1: whichever renderer is called on the element and whatever the element
\* held, right after the call the element holds exactly <table>, the
\* renderer's header with its two rows, an empty <tbody>, </table>: nothing of
\* the earlier content is left and nothing is appended to it.
C1_RenderReplacesContent ==
    [][ (IsCall /\ lastCall'.container = "element") =>
           /\ lastCall'.result = "returned"
           /\ innerHTML' = TableOf(lastCall'.fn)
           /\ Len(HeaderRows(innerHTML')) = 2
           /\ Len(Rows(innerHTML')) = 2
           /\ Body(innerHTML') = <<>> ]_vars

\* A second call, of another renderer, has replaced the first call's table.
C1_Witness ==
    /\ callCount["renderProjectsRateCard"] = 1
    /\ lastCall.fn = "renderScheduledRateCard"
    /\ lastCall.container = "element"
    /\ innerHTML = TableOf("renderScheduledRateCard")

---------------------------------------------------------------------------
(* C2 *)

\* C2: a renderer called on the element right after a call of the same
\* renderer on the element leaves the content as the first call left it.
C2_SecondCallSameContent ==
    [][ (/\ IsCall
         /\ lastCall'.fn = lastCall.fn
         /\ lastCall.container = "element"
         /\ lastCall'.container = "element") => innerHTML' = innerHTML ]_vars

\* The same renderer has been called twice and the element holds one table.
C2_Witness ==
    \E f \in Renderers :
        /\ callCount[f] = 2
        /\ lastCall.fn = f
        /\ lastCall.container = "element"
        /\ Len(Rows(innerHTML)) = 2

---------------------------------------------------------------------------
(* C5 *)

\* C5: whatever calls were made and whichever reactions of outstanding
\* fetches ran between and after them, the element holds the table of the
\* renderer most recently called on it.
C5_LastWriterWins ==
    lastRendered # "none" => innerHTML = TableOf(lastRendered)

\* A Dedicated call, then a Projects call, and the fetch has completed since.
C5_Witness ==
    /\ lastRendered = "renderProjectsRateCard"
    /\ lastCall.fn = "renderProjectsRateCard"
    /\ callCount["renderDedicatedRateCard"] = 1
    /\ Len(chain) = 1
    /\ chain[1].pc = "settled"
    /\ Len(console) = 1

---------------------------------------------------------------------------
(* C3 *)

\* The cells of the two header rows of the table in m.
Row1(m) == Cells(HeaderRows(m)[1])
Row2(m) == Cells(HeaderRows(m)[2])

\* C3, as stated: once a renderer has written the element, the column spans
\* of all the cells of header row 1 sum to the number of cells of row 2.
C3_Original ==
    lastRendered # "none" =>
        SpanSum(Row1(innerHTML)) = Len(Row2(innerHTML))

\* C3, amended: once a renderer has written the element, the column spans of
\* the row-1 cells that do not span both rows sum to the number of row-2
\* cells, and the spans of all row-1 cells sum to that number plus the number
\* of row-1 cells that span both rows.
C3_GroupSpansMatchRow2 ==
    lastRendered # "none" =>
        LET r1 == Row1(innerHTML)
            r2 == Row2(innerHTML)
        IN  /\ Len(r2) > 0
            /\ SpanSum(OneRowCells(r1)) = Len(r2)
            /\ SpanSum(r1) = Len(r2) + Len(TwoRowCells(r1))
            /\ \A n \in DOMAIN r2 : ColSpan(r2[n].tag) = 1 /\ RowSpan(r2[n].tag) = 1

\* The Dispatch header is in the element: groups of 6 and 3 over 9 cells.
C3_Witness ==
    /\ lastRendered = "renderDispatchRateCard"
    /\ SpanSum(OneRowCells(Row1(innerHTML))) = 9
    /\ Len(Row2(innerHTML)) = 9
    /\ SpanSum(Row1(innerHTML)) = 19

---------------------------------------------------------------------------
(* C8 *)

GenericLabels ==
    << <<"#">>, <<"Customer">>, <<"Region">>, <<"Country">>, <<"Supplier">>,
       <<"Currency">>, <<"Entity">>, <<"Payment">> >>

\* The labels "Band 0" .. "Band n-1".
BandLabels(n) ==
    [i \in 1..n |-> <<"Band", " ", <<"0", "1", "2", "3", "4">>[i]>>]

\* The row-1 cells between the generic columns and Status, Action.
Groups(r1) == SubSeq(r1, 9, Len(r1) - 2)

\* The layout C8 describes, with `half` the first lexeme of the label of the
\* half-day group of the Scheduled header.
HeaderLayout(half) ==
    lastRendered # "none" =>
        LET r1 == Row1(innerHTML)
            r2 == Row2(innerHTML)
            g  == Groups(r1)
        IN  /\ Len(r1) >= 11
            /\ SubSeq(Labels(r1), 1, 8) = GenericLabels
            /\ r1[Len(r1) - 1].label = <<"Status">>
            /\ r1[Len(r1)].label = <<"Action">>
            /\ lastRendered = "renderProjectsRateCard" =>
                  /\ Len(g) = 2
                  /\ StartsWith(g[1].label, <<"Short", " ", "Term">>)
                  /\ StartsWith(g[2].label, <<"Long", " ", "Term">>)
                  /\ ColSpan(g[1].tag) = 5 /\ ColSpan(g[2].tag) = 5
                  /\ Labels(r2) = BandLabels(5) \o BandLabels(5)
            /\ lastRendered = "renderScheduledRateCard" =>
                  /\ Len(g) = 2
                  /\ StartsWith(g[1].label, <<"Full", " ", "Day", " ", "Visit">>)
                  /\ StartsWith(g[2].label, <<half, " ", "Day", " ", "Visit">>)
                  /\ ColSpan(g[1].tag) = 3 /\ ColSpan(g[2].tag) = 3
                  /\ Labels(r2) = BandLabels(3) \o BandLabels(3)
            /\ lastRendered = "renderDedicatedRateCard" =>
                  /\ Labels(g) = BandLabels(5)
                  /\ \A n \in DOMAIN g : ColSpan(g[n].tag) = 2
                  /\ Labels(r2) =
                        [n \in 1..10 |-> IF n % 2 = 1 THEN <<"With">> ELSE <<"Without">>]

\* C8, as stated: row 1 is the 8 generic columns, the pricing groups, then
\* Status and Action; Projects has the groups "Short Term" and "Long Term" of
\* 5 bands, Scheduled the groups "Full Day Visit" and "½ Day Visit" of 3
\* bands, Dedicated five band groups split into With and Without.
C8_Original == HeaderLayout("½")

\* C8, amended: the same, the second Scheduled group being labelled
\* "1/2 Day Visit", written with the three characters 1, / and 2.
C8_HeaderLayout == HeaderLayout("1/2")

\* The Scheduled header is in the element, its second group read back.
C8_Witness ==
    /\ lastRendered = "renderScheduledRateCard"
    /\ Len(Groups(Row1(innerHTML))) = 2
    /\ Groups(Row1(innerHTML))[2].label =
          <<"1/2", " ", "Day", " ", "Visit", " ", "(4hrs)", " ">>

---------------------------------------------------------------------------
(* C4 *)

\* C4: a fetch whose chain has run to its end has written exactly one console
\* line, and before that none: the decoded value when the response body is
\* JSON, whatever the status, and otherwise (no response, or a body that is
\* not JSON) the error; and a Dedicated call on the element returns normally.
C4_OneLogPerFetch ==
    /\ \A k \in DOMAIN chain :
          LET lines == LinesOf(console, k)
              body  == chain[k].response.body
          IN  /\ Cardinality(lines) = IF chain[k].pc = "settled" THEN 1 ELSE 0
              /\ \A i \in lines :
                    IF chain[k].response # NoResponse /\ body \in {"[]", "[1,2]"}
                    THEN /\ console[i].kind = "value"
                         /\ body = "[1,2]" => console[i].value = <<1, 2>>
                         /\ body = "[]" => console[i].value = <<>>
                    ELSE /\ console[i].kind = "error"
                         /\ console[i].reason =
                               IF chain[k].response = NoResponse
                               THEN "TypeError" ELSE "SyntaxError"
    /\ (lastCall.fn = "renderDedicatedRateCard" /\ lastCall.container = "element")
          => lastCall.result = "returned"

\* Two Dedicated calls have completed: one logged its value, one a parse error.
C4_Witness ==
    /\ Len(console) = 2
    /\ \E i, j \in DOMAIN console :
          /\ console[i].kind = "value" /\ console[i].value = <<1, 2>>
          /\ console[j].kind = "error" /\ console[j].reason = "SyntaxError"
    /\ lastCall.container = "element"

---------------------------------------------------------------------------
(* C6 *)

\* C6: a Dedicated call on the element writes the header and returns without
\* a line being logged, its chain still pending; and a line is logged only in
\* a later step that is no call, for a request issued before that step.
C6_WriteThenLog ==
    [][ /\ (/\ IsCall
            /\ lastCall'.fn = "renderDedicatedRateCard"
            /\ lastCall'.container = "element") =>
               /\ innerHTML' = TableOf("renderDedicatedRateCard")
               /\ lastCall'.result = "returned"
               /\ console' = console
               /\ Len(chain') = Len(chain) + 1
               /\ chain'[Len(chain')].pc = "pending"
        /\ console' # console =>
               /\ ~IsCall
               /\ innerHTML' = innerHTML
               /\ Len(console') = Len(console) + 1
               /\ console'[Len(console')].fetch \in DOMAIN requests ]_vars

\* The Dedicated header is in the element and its fetch has logged since.
C6_Witness ==
    /\ lastCall.fn = "renderDedicatedRateCard"
    /\ lastCall.container = "element"
    /\ innerHTML = TableOf("renderDedicatedRateCard")
    /\ chain[Len(chain)].pc = "settled"
    /\ LinesOf(console, Len(chain)) # {}

---------------------------------------------------------------------------
(* C7 *)

\* C7: the requests issued are one GET per Dedicated call, the latest to the
\* url that call was given; each chain logs at most once; and with no
\* Dedicated call there is no request and no console line.
C7_OneRequestPerDedicatedCall ==
    /\ Len(requests) = callCount["renderDedicatedRateCard"]
    /\ Len(chain) = Len(requests)
    /\ \A k \in DOMAIN requests : requests[k].method = "GET"
    /\ lastCall.fn = "renderDedicatedRateCard" =>
          requests[Len(requests)].url = lastCall.url
    /\ Len(console) = Cardinality({k \in DOMAIN chain : chain[k].pc = "settled"})
    /\ \A i \in DOMAIN console : console[i].fetch \in DOMAIN requests

\* One Dedicated call among two calls: one request, to the url given.
C7_Witness ==
    /\ TotalCalls = 2
    /\ callCount["renderDedicatedRateCard"] = 1
    /\ lastCall.fn = "renderDedicatedRateCard"
    /\ requests = <<[method |-> "GET", url |-> "/rate_cards/missing/"]>>

---------------------------------------------------------------------------
(* C9 *)

\* C9: a step in which a promise chain advances, the steps that log its
\* outcome included, leaves the element's content, and so its empty body, as
\* it was.
C9_CompletionLeavesContainer ==
    [][ (\E k \in DOMAIN chain : chain'[k].pc # chain[k].pc) =>
           /\ innerHTML' = innerHTML
           /\ Body(innerHTML') = Body(innerHTML) ]_vars

\* A value and an error have been logged; the table's body is still empty.
C9_Witness ==
    /\ lastRendered = "renderDedicatedRateCard"
    /\ \E i \in DOMAIN console : console[i].kind = "value"
    /\ \E i \in DOMAIN console : console[i].kind = "error"
    /\ Has(innerHTML, "<tbody>")
    /\ Body(innerHTML) = <<>>

---------------------------------------------------------------------------
(* C10 *)

\* C10: a call with a null container throws and writes nothing to the element
\* or the console; a Dedicated one has issued its request, to its url, before
\* throwing, and that request's chain logs once when it runs to its end; a
\* Projects, Dispatch or Scheduled one changes nothing else at all.
C10_NullContainer ==
    [][ /\ (IsCall /\ lastCall'.container = "null") =>
               /\ lastCall'.result = "threw"
               /\ innerHTML' = innerHTML
               /\ console' = console
               /\ lastRendered' = lastRendered
               /\ IF lastCall'.fn = "renderDedicatedRateCard"
                  THEN /\ requests' =
                             Append(requests, [method |-> "GET", url |-> lastCall'.url])
                       /\ Len(chain') = Len(chain) + 1
                       /\ chain'[Len(chain')].pc = "pending"
                  ELSE requests' = requests /\ chain' = chain
        /\ (/\ lastCall'.fn = "renderDedicatedRateCard"
            /\ lastCall'.container = "null"
            /\ Len(chain') > 0) =>
               Cardinality(LinesOf(console', Len(chain'))) =
                  IF chain'[Len(chain')].pc = "settled" THEN 1 ELSE 0 ]_vars

\* A Dedicated call on null threw; its request went out and has logged since.
C10_Witness ==
    /\ lastCall.fn = "renderDedicatedRateCard"
    /\ lastCall.container = "null"
    /\ lastCall.result = "threw"
    /\ lastRendered = "none"
    /\ innerHTML \in PriorContents
    /\ Len(requests) = 1
    /\ chain[1].pc = "settled"
    /\ Len(console) = 1

=============================================================================
